---- MODULE Spec2Model ----
(***************************************************************************)
(* Provider abstraction and resilient request layer of the cookbook chat   *)
(* server: the embedders (Ollama with exponential backoff, Gemini without) *)
(* and the chat LLMs (Ollama over axios, Gemini over a Promise.race        *)
(* against a deadline timer).                                              *)
(*                                                                         *)
(* Each part has its own variables and its own specification (SpecEmbed,   *)
(* SpecChat, SpecNormalize, SpecRegistry, SpecStream, SpecConfig);         *)
(* SpecConcurrent runs embed calls and a chat call side by side.  An       *)
(* action leaves the variables of the other parts alone.                   *)
(***************************************************************************)
EXTENDS Integers, Sequences, FiniteSets, TLC

VARIABLES
    embedCfg,     \* LlmProviderConfig captured by createEmbedder, plus the provider
    embedPc,      \* per task: "idle" | "calling" | "waiting" | "done"
    attempt,      \* per task: withBackoff's `attempt`
    delay,        \* per task: withBackoff's `delay` (ms)
    actualDelay,  \* per task: withBackoff's `actualDelay`, in 1/JitterUnit ms
    fnCalls,      \* per task: number of invocations of the backend call so far
    lastOutcome,  \* per task: how the most recent backend call settled
    caught,       \* per task: the errors caught by withBackoff, in order
    embedResult,  \* per task: what embed() returned or threw
    warned        \* per task: number of console.warn lines emitted

embedVars == <<embedCfg, embedPc, attempt, delay, actualDelay, fnCalls,
               lastOutcome, caught, embedResult, warned>>

VARIABLES
    chatCfg,        \* provider and the `timeout` field of its configuration
    now,            \* the clock (ms)
    chatPc,         \* per call: "idle" | "awaiting" | "done"
    startedAt,      \* per call: the clock when answerQuestionAwaited was called
    opDue,          \* per call: the clock at which the backend call settles
    resultPromise,  \* per call: the promise of the backend call
    timer,          \* per call: "none" | "armed" | "fired" | "cleared"
    deadline,       \* per call: the clock at which the timer is due
    raceOutcome,    \* per call: the promise returned by Promise.race (Gemini)
    chatResult,     \* per call: what answerQuestionAwaited returned or threw
    chatLog         \* per call: the console.error lines, in order

chatVars == <<chatCfg, now, chatPc, startedAt, opDue, resultPromise, timer,
              deadline, raceOutcome, chatResult, chatLog>>

VARIABLES
    original,            \* the message list as the caller built it
    messages,            \* the caller's message list, as it is now
    chatMessages,        \* the contents sent to Gemini by the call
    secondChatMessages,  \* the contents sent by a second call with the same list
    renormalized,        \* the normalization applied to its own output
    normPc               \* "input" | "called" | "calledTwice" | "renormalized"

normVars == <<original, messages, chatMessages, secondChatMessages, renormalized, normPc>>

VARIABLES
    heap,        \* the provider records: heap[1] is the module's `providers`
    held,        \* indices of the records handed to callers by getAllLlmProviders
    resolved,    \* per name: the outcome of the last getLlmProvider(name)
    created      \* the outcome of the last createChatLlm / createEmbedder

registryVars == <<heap, held, resolved, created>>

VARIABLES
    streamPc,     \* "idle" | "awaiting" | "returned"
    response,     \* the ChatResult answerQuestionStream awaited
    answerCalls,  \* number of answerQuestionAwaited calls it made
    iterators,    \* the iterators opened on the returned iterable: their `done`
    yielded       \* per iterator: the results of its next() calls, in order

streamVars == <<streamPc, response, answerCalls, iterators, yielded>>

VARIABLES
    config,      \* the LlmProviderConfig a caller passes to a provider
    built        \* what createChatLlm / createEmbedder captured from it, or threw

configVars == <<config, built>>

VARIABLES
    env,         \* process.env after dotenv.config: the variables of the .env file
    loaded,      \* what loadEnvVars returned, or the assertion it failed
    ingest       \* the createEmbedder call of the ingest configuration

envVars == <<env, loaded, ingest>>

vars == <<embedVars, chatVars, normVars, registryVars, streamVars, configVars, envVars>>

\* What an action of one part leaves alone.
nonEmbedVars == <<chatVars, normVars, registryVars, streamVars, configVars, envVars>>
nonChatVars == <<embedVars, normVars, registryVars, streamVars, configVars, envVars>>
nonNormVars == <<embedVars, chatVars, registryVars, streamVars, configVars, envVars>>
nonRegistryVars == <<embedVars, chatVars, normVars, streamVars, configVars, envVars>>
nonStreamVars == <<embedVars, chatVars, normVars, registryVars, configVars, envVars>>
nonConfigVars == <<embedVars, chatVars, normVars, registryVars, streamVars, envVars>>
nonEnvVars == <<embedVars, chatVars, normVars, registryVars, streamVars, configVars>>

Min(a, b) == IF a <= b THEN a ELSE b

RECURSIVE Pow2(_)
Pow2(k) == IF k <= 0 THEN 1 ELSE 2 * Pow2(k - 1)

\* JavaScript `value || fallback` on numbers: 0 (like undefined) is falsy.
OrDefault(value, fallback) == IF value = 0 THEN fallback ELSE value

(***************************************************************************)
(* Bounds of the model.                                                    *)
(***************************************************************************)
MaxAttempts == 3      \* largest configured numOfAttempts explored
RandScale == 1000     \* Math.random() is r / RandScale with r in 0..RandScale-1

Tasks == {"t1", "t2"}

\* A configuration field that is absent is 0 here; -1 is a negative count.
AttemptChoices == {-1} \cup (0..MaxAttempts)
StartingDelayChoices == {0, 1000, 4000}
MaxDelayChoices == {0, 1500, 5000}
RandChoices == {0, RandScale \div 2, RandScale - 1}

EmbedProviders == {"ollama", "gemini"}

(***************************************************************************)
(* Defaults of OllamaProvider.createEmbedder.                              *)
(***************************************************************************)
DefaultNumOfAttempts == 3
DefaultMaxDelay == 5000
DefaultStartingDelay == 1000

numOfAttempts == OrDefault(embedCfg.numOfAttempts, DefaultNumOfAttempts)
maxDelay == OrDefault(embedCfg.maxDelay, DefaultMaxDelay)
startingDelay == OrDefault(embedCfg.startingDelay, DefaultStartingDelay)

(***************************************************************************)
(* The backend of an embedding call (axios.post / embedContent) settles    *)
(* with a body carrying an embedding, a body without one, or a rejection.  *)
(***************************************************************************)
TransportErrors == {"connect ECONNREFUSED"}

NoOutcome == [kind |-> "none", embedding |-> <<>>, error |-> ""]

EmbedOutcomes ==
    {[kind |-> "data", embedding |-> e, error |-> ""] : e \in {<<>>, <<1, 2>>}}
    \cup {[kind |-> "nodata", embedding |-> <<>>, error |-> ""]}
    \cup {[kind |-> "reject", embedding |-> <<>>, error |-> m] : m \in TransportErrors}

MissingEmbeddingError == "Invalid response from Ollama API: missing embedding"
ShouldNotReachHere == "Should not reach here"
GeminiReadValuesError == "Cannot read properties of undefined (reading 'values')"

NoResult == [kind |-> "none", embedding |-> <<>>, error |-> ""]
EmbedOk(e) == [kind |-> "ok", embedding |-> e, error |-> ""]
EmbedThrow(m) == [kind |-> "error", embedding |-> <<>>, error |-> m]

OllamaFnAcceptsNoData(out) ==
    CASE out.kind = "reject" -> EmbedThrow(out.error)
      [] OTHER -> EmbedOk(out.embedding)

OllamaFnDropsData(out) ==
    CASE out.kind = "reject" -> EmbedThrow(out.error)
      [] out.kind = "nodata" -> EmbedThrow(MissingEmbeddingError)
      [] OTHER -> EmbedOk(<<>>)

\* The async function handed to withBackoff by embedText: a rejection of
\* axios.post propagates, a body without `embedding` throws, otherwise the
\* embedding is returned (an empty array is truthy and is returned).
OllamaFn(out) ==
    CASE out.kind = "reject" -> EmbedThrow(out.error)
      [] out.kind = "nodata" -> EmbedThrow(MissingEmbeddingError)
      [] OTHER -> EmbedOk(out.embedding)

(***************************************************************************)
(* withBackoff                                                             *)
(***************************************************************************)
\* while (attempt < numOfAttempts)
LoopContinues(a) == a < numOfAttempts

\* if (attempt >= numOfAttempts) throw error;
ExhaustedEarly(a) == a + 1 >= numOfAttempts
ExhaustedAtOnce(a) == TRUE
Exhausted(a) == a >= numOfAttempts

\* throw error;  -- the error caught in this iteration
ThrowGeneric(err) == EmbedThrow(ShouldNotReachHere)
ThrowCaught(err) == EmbedThrow(err)

\* delay = Math.min(delay * 2, maxDelay);
NextDelayUncapped(d) == d * 2
NextDelay(d) == Min(d * 2, maxDelay)

\* actualDelay is kept in units of 1/JitterUnit ms so that
\* Math.random() * 0.1 * delay stays an integer: r/RandScale * 1/10 * delay.
JitterUnit == 10 * RandScale
Jitter(r, d) == r * d
ActualDelaySubtracted(r, d) == d * JitterUnit - Jitter(r, d)
ActualDelay(r, d) == d * JitterUnit + Jitter(r, d)

\* GeminiProvider embed's catch block: log and throw a wrapped error.
GeminiCatchEmpty(m) == EmbedOk(<<>>)
GeminiCatch(m) == EmbedThrow("Failed to generate embeddings: " \o m)

\* GeminiProvider embed: one embedContent call inside try/catch.
GeminiEmbed(out) ==
    CASE out.kind = "reject" -> GeminiCatch(out.error)
      [] out.kind = "nodata" -> GeminiCatch(GeminiReadValuesError)
      [] OTHER -> EmbedOk(out.embedding)

\* `let attempt = 0; let delay = startingDelay;` are locals of withBackoff:
\* every embed call runs its own activation and so has its own pair.
FrameShared(t) == CHOOSE u \in Tasks : TRUE
Frame(t) == t

\* console.warn(...) stands after the `throw error` of the exhausted case.
WarnedAfterEveryFailure(w, exhausted) == w + 1
WarnedAfterFailure(w, exhausted) == IF exhausted THEN w ELSE w + 1

\* await new Promise(resolve => setTimeout(resolve, actualDelay)): the
\* waiting call has yielded, the event loop runs whatever else is ready.
WaitHoldsThreadBusy(t) == embedPc[t] = "waiting"
WaitHoldsThread(t) == FALSE
Blocked(who) == \E t \in Tasks \ {who} : WaitHoldsThread(t)

InitEmbedVars ==
    /\ embedCfg \in [provider : EmbedProviders,
                     numOfAttempts : AttemptChoices,
                     startingDelay : StartingDelayChoices,
                     maxDelay : MaxDelayChoices]
    /\ embedPc = [t \in Tasks |-> "idle"]
    /\ attempt = [t \in Tasks |-> 0]
    /\ delay = [t \in Tasks |-> 0]
    /\ actualDelay = [t \in Tasks |-> 0]
    /\ fnCalls = [t \in Tasks |-> 0]
    /\ lastOutcome = [t \in Tasks |-> NoOutcome]
    /\ caught = [t \in Tasks |-> <<>>]
    /\ embedResult = [t \in Tasks |-> NoResult]
    /\ warned = [t \in Tasks |-> 0]

\* embed(args) is called.  Ollama: embedText -> withBackoff initialises its
\* locals, tests the loop condition and invokes fn; Gemini: embedContent is
\* invoked inside the try block.
EmbedStart(t) ==
    /\ embedPc[t] = "idle"
    /\ ~Blocked(t)
    /\ UNCHANGED <<embedCfg, actualDelay, lastOutcome, caught, warned, nonEmbedVars>>
    /\ attempt' = [attempt EXCEPT ![Frame(t)] = 0]
    /\ IF embedCfg.provider = "ollama"
       THEN /\ delay' = [delay EXCEPT ![Frame(t)] = startingDelay]
            /\ IF LoopContinues(0)
               THEN /\ embedPc' = [embedPc EXCEPT ![t] = "calling"]
                    /\ fnCalls' = [fnCalls EXCEPT ![t] = @ + 1]
                    /\ UNCHANGED embedResult
               ELSE /\ embedPc' = [embedPc EXCEPT ![t] = "done"]
                    /\ embedResult' = [embedResult EXCEPT ![t] = EmbedThrow(ShouldNotReachHere)]
                    /\ UNCHANGED fnCalls
       ELSE /\ embedPc' = [embedPc EXCEPT ![t] = "calling"]
            /\ fnCalls' = [fnCalls EXCEPT ![t] = @ + 1]
            /\ UNCHANGED <<delay, embedResult>>

\* The awaited backend call settles with `out`.
EmbedSettle(t, out, r) ==
    /\ embedPc[t] = "calling"
    /\ ~Blocked(t)
    /\ lastOutcome' = [lastOutcome EXCEPT ![t] = out]
    /\ UNCHANGED <<embedCfg, fnCalls, nonEmbedVars>>
    /\ IF embedCfg.provider = "gemini"
       THEN /\ embedPc' = [embedPc EXCEPT ![t] = "done"]
            /\ embedResult' = [embedResult EXCEPT ![t] = GeminiEmbed(out)]
            /\ UNCHANGED <<attempt, delay, actualDelay, caught, warned>>
       ELSE LET res == OllamaFn(out) IN
            IF res.kind = "ok"
            THEN \* return await fn();
                 /\ embedPc' = [embedPc EXCEPT ![t] = "done"]
                 /\ embedResult' = [embedResult EXCEPT ![t] = res]
                 /\ UNCHANGED <<attempt, delay, actualDelay, caught, warned>>
            ELSE \* catch (error) { attempt++; ...
                 /\ attempt' = [attempt EXCEPT ![Frame(t)] = @ + 1]
                 /\ caught' = [caught EXCEPT ![t] = Append(@, res.error)]
                 /\ warned' = [warned EXCEPT ![t] =
                                  WarnedAfterFailure(@, Exhausted(attempt[Frame(t)] + 1))]
                 /\ IF Exhausted(attempt[Frame(t)] + 1)
                    THEN /\ embedPc' = [embedPc EXCEPT ![t] = "done"]
                         /\ embedResult' = [embedResult EXCEPT ![t] = ThrowCaught(res.error)]
                         /\ UNCHANGED <<delay, actualDelay>>
                    ELSE /\ delay' = [delay EXCEPT ![Frame(t)] = NextDelay(@)]
                         /\ actualDelay' = [actualDelay EXCEPT ![t] =
                                               ActualDelay(r, NextDelay(delay[Frame(t)]))]
                         /\ embedPc' = [embedPc EXCEPT ![t] = "waiting"]
                         /\ UNCHANGED embedResult

\* setTimeout(resolve, actualDelay) fires: the loop condition is tested again
\* and fn is invoked, or the loop is left and the final throw is reached.
EmbedWake(t) ==
    /\ embedPc[t] = "waiting"
    /\ ~Blocked(t)
    /\ UNCHANGED <<embedCfg, attempt, delay, lastOutcome, caught, warned, nonEmbedVars>>
    /\ actualDelay' = [actualDelay EXCEPT ![t] = 0]   \* the catch block's const is gone
    /\ IF LoopContinues(attempt[Frame(t)])
       THEN /\ embedPc' = [embedPc EXCEPT ![t] = "calling"]
            /\ fnCalls' = [fnCalls EXCEPT ![t] = @ + 1]
            /\ UNCHANGED embedResult
       ELSE /\ embedPc' = [embedPc EXCEPT ![t] = "done"]
            /\ embedResult' = [embedResult EXCEPT ![t] = EmbedThrow(ShouldNotReachHere)]
            /\ UNCHANGED fnCalls

EmbedNext ==
    \E t \in Tasks :
        \/ EmbedStart(t)
        \/ \E out \in EmbedOutcomes, r \in RandChoices : EmbedSettle(t, out, r)
        \/ EmbedWake(t)

(***************************************************************************)
(* Chat                                                                    *)
(***************************************************************************)
MaxLatency == 3       \* backend latencies explored: 1..MaxLatency ms

Calls == {"c1", "c2"}
ChatProviders == {"ollama", "gemini", "makeOllamaLlm"}
TimeoutChoices == {0, 2}       \* 0: the field is absent
Latencies == 1..MaxLatency

\* The due time of a backend call that never settles: later than every clock
\* value a run reaches.
Never == 1000000

DefaultTimeout == 60000
LegacyTimeout == 60000

\* const timeout = config.timeout || 60000;  makeOllamaLlm passes 60000.
timeout ==
    IF chatCfg.provider = "makeOllamaLlm" THEN LegacyTimeout
    ELSE OrDefault(chatCfg.timeout, DefaultTimeout)

\* String.prototype.includes
Includes(s, sub) ==
    \E i \in 1..(Len(s) - Len(sub) + 1) : SubSeq(s, i, i + Len(sub) - 1) = sub

TimeoutApology == "I apologize, but I'm having trouble processing your request at the moment. The response is taking longer than expected. Please try a simpler query or try again later."
TechnicalApology == "I apologize, but I'm experiencing technical difficulties at the moment. Please try again later."

\* How a backend chat call can settle: a body with the answer text, a body
\* without it, a response whose text() throws, or a rejection.
ChatOutcome(k, t, c, m) == [kind |-> k, text |-> t, code |-> c, message |-> m]

GeminiOutcomes ==
    {ChatOutcome("text", "Hello", "", ""),
     ChatOutcome("blocked", "", "", "Response was blocked due to SAFETY"),
     ChatOutcome("reject", "", "", "fetch failed"),
     ChatOutcome("reject", "", "", "Request timed out")}

OllamaOutcomes ==
    {ChatOutcome("text", "Hello", "", ""),
     ChatOutcome("notext", "", "", ""),
     ChatOutcome("reject", "", "ECONNREFUSED", "connect ECONNREFUSED"),
     ChatOutcome("reject", "", "ERR_BAD_RESPONSE", "socket timeout")}

BackendOutcomes == IF chatCfg.provider = "gemini" THEN GeminiOutcomes ELSE OllamaOutcomes

\* new Error('Gemini API call timed out')
GeminiTimeoutError == ChatOutcome("reject", "", "", "Gemini API call timed out")
\* axios' own timeout: code ECONNABORTED, message "timeout of <n>ms exceeded"
AxiosTimeoutError == ChatOutcome("reject", "", "ECONNABORTED", "timeout of 60000ms exceeded")

Pending == [state |-> "pending", value |-> ChatOutcome("none", "", "", "")]
Unset == [state |-> "unset", value |-> ChatOutcome("none", "", "", "")]
Fulfilled(v) == [state |-> "fulfilled", value |-> v]
Rejected(v) == [state |-> "rejected", value |-> v]
Settlement(out) == IF out.kind = "reject" THEN Rejected(out) ELSE Fulfilled(out)

NoChatResult == [kind |-> "none", role |-> "", content |-> "", hasContent |-> FALSE]
ChatReturn(text) == [kind |-> "returned", role |-> "assistant", content |-> text, hasContent |-> TRUE]
ChatReturnUndefined == [kind |-> "returned", role |-> "assistant", content |-> "", hasContent |-> FALSE]
ChatThrow(m) == [kind |-> "thrown", role |-> "", content |-> m, hasContent |-> FALSE]

\* error.code === 'ECONNABORTED' || (error.message && error.message.includes('timeout'))
OllamaIsTimeout(err) ==
    err.code = "ECONNABORTED" \/ (err.message # "" /\ Includes(err.message, "timeout"))

\* error.message && error.message.includes('timed out')
GeminiIsTimeout(err) == err.message # "" /\ Includes(err.message, "timed out")

IsTimeout(err) ==
    IF chatCfg.provider = "gemini" THEN GeminiIsTimeout(err) ELSE OllamaIsTimeout(err)

\* The catch block of answerQuestionAwaited: what it returns ...
CatchRethrows(err) == ChatThrow(err.message)
CatchLeaksMessage(err) ==
    IF IsTimeout(err) THEN ChatReturn(TimeoutApology) ELSE ChatReturn(err.message)
CatchReturn(err) ==
    IF IsTimeout(err) THEN ChatReturn(TimeoutApology) ELSE ChatReturn(TechnicalApology)

\* ... and what it logs.
CatchLog(err) ==
    IF chatCfg.provider = "gemini"
    THEN <<"Error calling Gemini: " \o err.message>>
         \o (IF GeminiIsTimeout(err) THEN <<"Gemini API call timed out">> ELSE <<>>)
    ELSE <<"Error calling Ollama: " \o err.message>>
         \o (IF OllamaIsTimeout(err) THEN <<"Ollama API call timed out">> ELSE <<>>)

\* The code after `await`: build the ChatResult from a fulfilled promise, or
\* run the catch block on a rejection (or on text() throwing).
Continuation(p) ==
    CASE p.state = "rejected" -> CatchReturn(p.value)
      [] p.value.kind = "blocked" -> CatchReturn(p.value)
      [] p.value.kind = "notext" -> ChatReturnUndefined
      [] OTHER -> ChatReturn(p.value.text)

ContinuationLog(p) ==
    IF p.state = "rejected" \/ p.value.kind = "blocked" THEN CatchLog(p.value) ELSE <<>>

\* Promise.race: the returned promise takes the first settlement and keeps it.
RaceLastWins(current, settlement) == settlement
Race(current, settlement) == IF current.state = "pending" THEN settlement ELSE current

\* setTimeout(..., timeout) / axios' { timeout }
DeadlineImmediate(start) == start
DeadlineNever(start) == Never
Deadline(start) == start + timeout

InitChatVars ==
    /\ chatCfg \in [provider : ChatProviders, timeout : TimeoutChoices]
    /\ now = 0
    /\ chatPc = [c \in Calls |-> "idle"]
    /\ startedAt = [c \in Calls |-> 0]
    /\ opDue = [c \in Calls |-> 0]
    /\ resultPromise = [c \in Calls |-> Unset]
    /\ timer = [c \in Calls |-> "none"]
    /\ deadline = [c \in Calls |-> 0]
    /\ raceOutcome = [c \in Calls |-> Unset]
    /\ chatResult = [c \in Calls |-> NoChatResult]
    /\ chatLog = [c \in Calls |-> <<>>]

\* answerQuestionAwaited is called: the timer is set, the backend call is
\* issued (it will settle `latency` ms from now) and the function awaits.
ChatStart(c, latency) ==
    /\ chatPc[c] = "idle"
    /\ ~Blocked(c)
    /\ chatPc' = [chatPc EXCEPT ![c] = "awaiting"]
    /\ startedAt' = [startedAt EXCEPT ![c] = now]
    /\ opDue' = [opDue EXCEPT ![c] = IF latency = Never THEN Never ELSE now + latency]
    /\ resultPromise' = [resultPromise EXCEPT ![c] = Pending]
    /\ timer' = [timer EXCEPT ![c] = "armed"]
    /\ deadline' = [deadline EXCEPT ![c] = Deadline(now)]
    /\ raceOutcome' = [raceOutcome EXCEPT ![c] =
                          IF chatCfg.provider = "gemini" THEN Pending ELSE Unset]
    /\ UNCHANGED <<chatCfg, now, chatResult, chatLog, nonChatVars>>

\* The backend call settles, with one of the outcomes the backend can produce.
BackendSettle(c) ==
    \E out \in BackendOutcomes :
        /\ resultPromise[c].state = "pending"
        /\ opDue[c] <= now
        /\ ~Blocked(c)
        /\ resultPromise' = [resultPromise EXCEPT ![c] = Settlement(out)]
        /\ UNCHANGED <<chatCfg, now, startedAt, opDue, deadline, nonChatVars>>
        /\ IF chatCfg.provider = "gemini"
           THEN LET r == Race(raceOutcome[c], Settlement(out)) IN
                /\ raceOutcome' = [raceOutcome EXCEPT ![c] = r]
                /\ UNCHANGED timer
                /\ IF r # raceOutcome[c]
                   THEN /\ chatResult' = [chatResult EXCEPT ![c] = Continuation(r)]
                        /\ chatLog' = [chatLog EXCEPT ![c] = @ \o ContinuationLog(r)]
                        /\ chatPc' = [chatPc EXCEPT ![c] = "done"]
                   ELSE UNCHANGED <<chatResult, chatLog, chatPc>>
           ELSE \* axios clears its timer and settles the promise of axios.post
                /\ timer' = [timer EXCEPT ![c] = "cleared"]
                /\ chatResult' = [chatResult EXCEPT ![c] = Continuation(Settlement(out))]
                /\ chatLog' = [chatLog EXCEPT ![c] = @ \o ContinuationLog(Settlement(out))]
                /\ chatPc' = [chatPc EXCEPT ![c] = "done"]
                /\ UNCHANGED raceOutcome

\* The deadline timer fires.
TimerFire(c) ==
    /\ timer[c] = "armed"
    /\ deadline[c] <= now
    /\ ~Blocked(c)
    /\ timer' = [timer EXCEPT ![c] = "fired"]
    /\ UNCHANGED <<chatCfg, now, startedAt, opDue, deadline, nonChatVars>>
    /\ IF chatCfg.provider = "gemini"
       THEN LET r == Race(raceOutcome[c], Rejected(GeminiTimeoutError)) IN
            /\ raceOutcome' = [raceOutcome EXCEPT ![c] = r]
            /\ UNCHANGED resultPromise
            /\ IF r # raceOutcome[c]
               THEN /\ chatResult' = [chatResult EXCEPT ![c] = Continuation(r)]
                    /\ chatLog' = [chatLog EXCEPT ![c] = @ \o ContinuationLog(r)]
                    /\ chatPc' = [chatPc EXCEPT ![c] = "done"]
               ELSE UNCHANGED <<chatResult, chatLog, chatPc>>
       ELSE \* axios aborts the request and rejects with ECONNABORTED
            /\ resultPromise' = [resultPromise EXCEPT ![c] = Rejected(AxiosTimeoutError)]
            /\ chatResult' = [chatResult EXCEPT ![c] = Continuation(Rejected(AxiosTimeoutError))]
            /\ chatLog' = [chatLog EXCEPT ![c] = @ \o ContinuationLog(Rejected(AxiosTimeoutError))]
            /\ chatPc' = [chatPc EXCEPT ![c] = "done"]
            /\ UNCHANGED raceOutcome

\* Events of the event loop, with the clock value at which each is due.
DueTimes ==
    {opDue[c] : c \in {x \in Calls : resultPromise[x].state = "pending"
                                         /\ opDue[x] # Never}}
    \cup {deadline[c] : c \in {x \in Calls : timer[x] = "armed"}}

\* Time passes to the next due event; an event that is due runs first.
AdvanceTime ==
    /\ DueTimes # {}
    /\ \A d \in DueTimes : d > now
    /\ now' = CHOOSE d \in DueTimes : \A e \in DueTimes : d <= e
    /\ UNCHANGED <<chatCfg, chatPc, startedAt, opDue, resultPromise, timer,
                   deadline, raceOutcome, chatResult, chatLog, nonChatVars>>

ChatNext ==
    \/ \E c \in Calls, latency \in Latencies \cup {Never} : ChatStart(c, latency)
    \/ \E c \in Calls : BackendSettle(c)
    \/ \E c \in Calls : TimerFire(c)
    \/ AdvanceTime

(***************************************************************************)
(* Message normalization of GeminiProvider's answerQuestionAwaited         *)
(***************************************************************************)
MaxMessages == 3      \* longest message list explored

Roles == {"system", "user", "assistant"}
Contents == {"A", "B"}
MessageLists ==
    UNION {[1..n -> [role : Roles, content : Contents]] : n \in 0..MaxMessages}

\* role: msg.role === "assistant" ? "model" : msg.role
RenameRoleKept(r) == r
RenameRole(r) == IF r = "assistant" THEN "model" ELSE r

\* { role, parts: [{ text }] }
GeminiMessage(r, t) == [role |-> r, parts |-> <<[text |-> t]>>]

\* messages.map(msg => ({ ... }))
ToGemini(msgs) ==
    [i \in 1..Len(msgs) |-> GeminiMessage(RenameRole(msgs[i].role), msgs[i].content)]

IsSystem(m) == m.role = "system"
NotSystem(m) == m.role # "system"

\* geminiMessages.filter(...)
SystemMessagesOf(g) == SelectSeq(g, IsSystem)
NonSystemMessagesOf(g) == SelectSeq(g, NotSystem)

\* nonSystemMessages.findIndex(msg => msg.role === "user"); 0 stands for -1
FindFirstUserOrFirst(seq) ==
    IF \E i \in 1..Len(seq) : seq[i].role = "user"
    THEN CHOOSE i \in 1..Len(seq) :
            seq[i].role = "user" /\ \A j \in 1..(i - 1) : seq[j].role # "user"
    ELSE 1
FindFirstUser(seq) ==
    IF \E i \in 1..Len(seq) : seq[i].role = "user"
    THEN CHOOSE i \in 1..Len(seq) :
            seq[i].role = "user" /\ \A j \in 1..(i - 1) : seq[j].role # "user"
    ELSE 0

\* Array.prototype.join
RECURSIVE Join(_, _)
Join(texts, sep) ==
    IF texts = <<>> THEN ""
    ELSE IF Len(texts) = 1 THEN texts[1]
    ELSE texts[1] \o sep \o Join(Tail(texts), sep)

\* `[System Instructions: ${systemContent}]\n\n${userContent}`
MergedTextOneNewline(systemContent, userContent) ==
    "[System Instructions: " \o systemContent \o "]\n" \o userContent
MergedText(systemContent, userContent) ==
    "[System Instructions: " \o systemContent \o "]\n\n" \o userContent

\* if (systemMessages.length > 0 && nonSystemMessages.length > 0)
ShouldMergeAlways(sys, non) == Len(non) > 0
ShouldMerge(sys, non) == Len(sys) > 0 /\ Len(non) > 0

\* The conversion of answerQuestionAwaited, from `messages` to `chatMessages`.
GeminiNormalize(msgs) ==
    LET g == ToGemini(msgs)
        sys == SystemMessagesOf(g)
        non == NonSystemMessagesOf(g)
        idx == FindFirstUser(non)
    IN  IF ShouldMerge(sys, non) /\ idx # 0
        THEN LET systemContent ==
                     Join([i \in 1..Len(sys) |-> sys[i].parts[1].text], "\n\n")
                 userContent == non[idx].parts[1].text
             IN  [non EXCEPT ![idx] =
                     GeminiMessage(non[idx].role, MergedText(systemContent, userContent))]
        ELSE non

\* The caller's list after the call.  map() builds new objects, so the write
\* to nonSystemMessages[i].parts[0].text lands on a copy.  The variant writes
\* the merged text through to the caller's message, as a map() that reused
\* its argument objects would.
InputAfterCallAliased(msgs) ==
    LET out == GeminiNormalize(msgs)
        first == FindFirstUser(msgs)
        outFirst == IF Len(out) > 0 THEN FindFirstUser(out) ELSE 0
    IN  IF first # 0 /\ outFirst # 0
        THEN [msgs EXCEPT ![first].content = out[outFirst].parts[1].text]
        ELSE msgs
InputAfterCall(msgs) == msgs

\* Gemini contents read back as a message list.
AsMessages(g) == [i \in 1..Len(g) |-> [role |-> g[i].role, content |-> g[i].parts[1].text]]

NormIdle ==
    /\ chatMessages = <<>>
    /\ secondChatMessages = <<>>
    /\ renormalized = <<>>
    /\ normPc = "input"
    /\ messages = original

InitNormVars == original \in MessageLists /\ NormIdle

\* answerQuestionAwaited({ messages }) runs up to the backend call.
GeminiPrepare ==
    /\ normPc = "input"
    /\ chatMessages' = GeminiNormalize(messages)
    /\ messages' = InputAfterCall(messages)
    /\ normPc' = "called"
    /\ UNCHANGED <<original, secondChatMessages, renormalized, nonNormVars>>

\* A second call is made with the same list.
GeminiPrepareAgain ==
    /\ normPc = "called"
    /\ secondChatMessages' = GeminiNormalize(messages)
    /\ messages' = InputAfterCall(messages)
    /\ normPc' = "calledTwice"
    /\ UNCHANGED <<original, chatMessages, renormalized, nonNormVars>>

\* The conversion is applied to what it produced.
Renormalize ==
    /\ normPc = "called"
    /\ renormalized' = GeminiNormalize(AsMessages(chatMessages))
    /\ normPc' = "renormalized"
    /\ UNCHANGED <<original, messages, chatMessages, secondChatMessages, nonNormVars>>

NormNext == GeminiPrepare \/ GeminiPrepareAgain \/ Renormalize

(***************************************************************************)
(* The provider registry (llmProviderFactory)                              *)
(***************************************************************************)
MaxCopies == 1        \* getAllLlmProviders calls explored

\* An object is the sequence of its own properties, in insertion order.
Entry(k, v) == [key |-> k, value |-> v]

\* const providers = { ollama: new OllamaProvider(), gemini: new GeminiProvider() }
ProvidersAtStartup ==
    <<Entry("ollama", "OllamaProvider"), Entry("gemini", "GeminiProvider")>>

Undefined == "undefined"

\* getName(): OllamaProvider returns "ollama", GeminiProvider "gemini".
GetNameOfClass(handle) == handle
GetName(handle) ==
    CASE handle = "OllamaProvider" -> "ollama"
      [] handle = "GeminiProvider" -> "gemini"
      [] OTHER -> Undefined

\* requiresApiKey(): OllamaProvider returns false, GeminiProvider true.
RequiresApiKeyNever(handle) == FALSE
RequiresApiKey(handle) == handle = "GeminiProvider"

\* What an object literal inherits from Object.prototype under a name that
\* toLowerCase leaves as it is.
ObjectPrototype ==
    <<Entry("constructor", "Object"), Entry("__proto__", "Object.prototype")>>

HasKey(rec, k) == \E i \in 1..Len(rec) : rec[i].key = k
OwnValue(rec, k) == rec[CHOOSE i \in 1..Len(rec) : rec[i].key = k].value

\* rec[k]: an own property, else an inherited one, else undefined
GetProperty(rec, k) ==
    IF HasKey(rec, k) THEN OwnValue(rec, k)
    ELSE IF HasKey(ObjectPrototype, k) THEN OwnValue(ObjectPrototype, k)
    ELSE Undefined

\* rec[k] = v
SetProperty(rec, k, v) ==
    IF HasKey(rec, k)
    THEN [i \in 1..Len(rec) |-> IF rec[i].key = k THEN Entry(k, v) ELSE rec[i]]
    ELSE Append(rec, Entry(k, v))

\* delete rec[k]
DeleteProperty(rec, k) == SelectSeq(rec, LAMBDA e : e.key # k)

\* Object.keys(rec)
ObjectKeys(rec) == [i \in 1..Len(rec) |-> rec[i].key]

UpperLetters == "ABCDEFGHIJKLMNOPQRSTUVWXYZ"
LowerLetters == "abcdefghijklmnopqrstuvwxyz"

LowerChar(ch) ==
    IF \E i \in 1..Len(UpperLetters) : SubSeq(UpperLetters, i, i) = ch
    THEN LET i == CHOOSE j \in 1..Len(UpperLetters) : SubSeq(UpperLetters, j, j) = ch
         IN  SubSeq(LowerLetters, i, i)
    ELSE ch

\* String.prototype.toLowerCase
RECURSIVE ToLowerCase(_)
ToLowerCaseOmitted(str) == str
ToLowerCase(str) ==
    IF Len(str) = 0 THEN ""
    ELSE LowerChar(SubSeq(str, 1, 1)) \o ToLowerCase(SubSeq(str, 2, Len(str)))

ResolveNames ==
    {"ollama", "OLLAMA", "Gemini", "unknown-provider", "mistral", "constructor", "__proto__"}
CreateNames == {"ollama", "GEMINI", "unknown-provider"}
ApiKeys == {"", "key"}          \* "": config.apiKey is absent
CallerKeys == {"ollama", "mistral"}
CallerValues == {"FakeProvider"}

NoResolve == [name |-> "", kind |-> "none", handle |-> "", message |-> ""]
ResolvedHandle(n, h) == [name |-> n, kind |-> "handle", handle |-> h, message |-> ""]
ResolveError(n, m) == [name |-> n, kind |-> "error", handle |-> "", message |-> m]

\* `LLM provider '${providerName}' not found. Available providers: ${Object.keys(providers).join(", ")}`
NotFoundMessageBare(providerName, rec) ==
    "LLM provider '" \o providerName \o "' not found."
NotFoundMessage(providerName, rec) ==
    "LLM provider '" \o providerName \o "' not found. Available providers: "
        \o Join(ObjectKeys(rec), ", ")

\* getLlmProvider(providerName)
GetLlmProvider(providerName) ==
    LET provider == GetProperty(heap[1], ToLowerCase(providerName))
    IN  IF provider = Undefined
        THEN ResolveError(providerName, NotFoundMessage(providerName, heap[1]))
        ELSE ResolvedHandle(providerName, provider)

\* The record getAllLlmProviders returns: { ...providers } is a new object.
GetAllReturnsRegistry(h) == [heap |-> h, ref |-> 1]
GetAllReturns(h) == [heap |-> Append(h, h[1]), ref |-> Len(h) + 1]

NoCreate == [op |-> "none", name |-> "", kind |-> "none", detail |-> ""]
GeminiNeedsKey == "Gemini provider requires an API key"

\* provider.createChatLlm(config) / provider.createEmbedder(config)
CreateOutcome(op, name, apiKey) ==
    LET got == GetLlmProvider(name)
        kindAndDetail ==
            CASE got.kind = "error" -> <<"error", got.message>>
              [] got.handle = "OllamaProvider" -> <<"capability", "ollama">>
              [] got.handle = "GeminiProvider" ->
                    IF apiKey = "" THEN <<"error", GeminiNeedsKey>>
                    ELSE <<"capability", "gemini">>
              [] OTHER -> <<"error", "provider." \o op \o " is not a function">>
    IN  [op |-> op, name |-> name, kind |-> kindAndDetail[1], detail |-> kindAndDetail[2]]

RegistryIdle ==
    /\ heap = <<ProvidersAtStartup>>
    /\ held = {}
    /\ resolved = NoResolve
    /\ created = NoCreate

InitRegistryVars == RegistryIdle

Resolve(name) ==
    /\ resolved' = GetLlmProvider(name)
    /\ UNCHANGED <<heap, held, created, nonRegistryVars>>

GetAllLlmProviders ==
    /\ Len(heap) <= MaxCopies
    /\ heap' = GetAllReturns(heap).heap
    /\ held' = held \cup {GetAllReturns(heap).ref}
    /\ UNCHANGED <<resolved, created, nonRegistryVars>>

\* A caller writes to, or deletes from, a record it was handed.
CallerSets(i, k, v) ==
    /\ i \in held
    /\ heap' = [heap EXCEPT ![i] = SetProperty(@, k, v)]
    /\ UNCHANGED <<held, resolved, created, nonRegistryVars>>

CallerDeletes(i, k) ==
    /\ i \in held
    /\ HasKey(heap[i], k)
    /\ heap' = [heap EXCEPT ![i] = DeleteProperty(@, k)]
    /\ UNCHANGED <<held, resolved, created, nonRegistryVars>>

CreateChatLlm(name, apiKey) ==
    /\ created' = CreateOutcome("createChatLlm", name, apiKey)
    /\ UNCHANGED <<heap, held, resolved, nonRegistryVars>>

CreateEmbedder(name, apiKey) ==
    /\ created' = CreateOutcome("createEmbedder", name, apiKey)
    /\ UNCHANGED <<heap, held, resolved, nonRegistryVars>>

RegistryNext ==
    \/ \E name \in ResolveNames : Resolve(name)
    \/ GetAllLlmProviders
    \/ \E i \in 1..(MaxCopies + 1), k \in CallerKeys, v \in CallerValues : CallerSets(i, k, v)
    \/ \E i \in 1..(MaxCopies + 1), k \in CallerKeys : CallerDeletes(i, k)
    \/ \E name \in CreateNames, apiKey \in ApiKeys : CreateChatLlm(name, apiKey)
    \/ \E name \in CreateNames, apiKey \in ApiKeys : CreateEmbedder(name, apiKey)

(***************************************************************************)
(* answerQuestionStream                                                    *)
(***************************************************************************)
MaxIterators == 3     \* iterations opened on one returned iterable
MaxNexts == 3         \* next() calls explored per iterator

\* What the awaited answerQuestionAwaited can return.
StreamAnswers == {ChatReturn("Hello"), ChatReturn(TechnicalApology), ChatReturnUndefined}

\* { done: false, value: { choices: [{ delta: { content: response.content } }] } }
Chunk(resp) == [done |-> FALSE, content |-> resp.content, hasContent |-> resp.hasContent]
\* { done: true, value: undefined }
Finished == [done |-> TRUE, content |-> "", hasContent |-> FALSE]

\* `let done = false` is declared inside [Symbol.asyncIterator](): one per iterator.
IteratorIsDone(i) == iterators[i]

\* done = true;
DoneAfterChunkForgotten(d) == d
DoneAfterChunk(d) == TRUE

\* next() reads the `response` captured by the closure; it calls no backend.
NextIssuesCallsAgain(n) == n + 1
NextIssuesCalls(n) == n

StreamIdle ==
    /\ streamPc = "idle"
    /\ response = NoChatResult
    /\ answerCalls = 0
    /\ iterators = <<>>
    /\ yielded = <<>>

InitStreamVars == StreamIdle

\* answerQuestionStream(params) is called and awaits answerQuestionAwaited.
StreamCall ==
    /\ streamPc = "idle"
    /\ streamPc' = "awaiting"
    /\ answerCalls' = answerCalls + 1
    /\ UNCHANGED <<response, iterators, yielded, nonStreamVars>>

\* answerQuestionAwaited returns; the iterable is built and returned.
StreamAnswered ==
    \E res \in StreamAnswers :
        /\ streamPc = "awaiting"
        /\ response' = res
        /\ streamPc' = "returned"
        /\ UNCHANGED <<answerCalls, iterators, yielded, nonStreamVars>>

\* asyncIterable[Symbol.asyncIterator]()
OpenIterator ==
    /\ streamPc = "returned"
    /\ Len(iterators) < MaxIterators
    /\ iterators' = Append(iterators, FALSE)
    /\ yielded' = Append(yielded, <<>>)
    /\ UNCHANGED <<streamPc, response, answerCalls, nonStreamVars>>

\* iterator.next()
IteratorNext(i) ==
    /\ i \in 1..Len(iterators)
    /\ Len(yielded[i]) < MaxNexts
    /\ IF IteratorIsDone(i)
       THEN /\ yielded' = [yielded EXCEPT ![i] = Append(@, Finished)]
            /\ UNCHANGED iterators
       ELSE /\ iterators' = [iterators EXCEPT ![i] = DoneAfterChunk(@)]
            /\ yielded' = [yielded EXCEPT ![i] = Append(@, Chunk(response))]
    /\ answerCalls' = NextIssuesCalls(answerCalls)
    /\ UNCHANGED <<streamPc, response, nonStreamVars>>

StreamNext ==
    \/ StreamCall
    \/ StreamAnswered
    \/ OpenIterator
    \/ \E i \in 1..MaxIterators : IteratorNext(i)

(***************************************************************************)
(* Construction of a provider's capabilities from an LlmProviderConfig     *)
(***************************************************************************)
\* An optional field of the configuration: absent, or given with a value.
Absent == [present |-> FALSE, value |-> 0]
AbsentText == [present |-> FALSE, value |-> ""]
Given(v) == [present |-> TRUE, value |-> v]

\* JavaScript `config.x || fallback`: undefined, 0 and "" are falsy.
NumberOr(field, fallback) ==
    IF field.present /\ field.value # 0 THEN field.value ELSE fallback
TextOr(field, fallback) ==
    IF field.present /\ field.value # "" THEN field.value ELSE fallback

ConfigProviders == {"ollama", "gemini"}
Configs ==
    [apiKey : {AbsentText, Given("key")},
     baseUrl : {AbsentText, Given("http://ollama.internal:11434")},
     model : {AbsentText, Given("custom-chat")},
     embeddingModel : {AbsentText, Given("custom-embed")},
     timeout : {Absent, Given(0), Given(30000)},
     numOfAttempts : {Absent, Given(0), Given(2)},
     maxDelay : {Absent, Given(0), Given(1500)},
     startingDelay : {Absent, Given(0), Given(250)}]

NoConfig ==
    [apiKey |-> AbsentText, baseUrl |-> AbsentText, model |-> AbsentText,
     embeddingModel |-> AbsentText, timeout |-> Absent, numOfAttempts |-> Absent,
     maxDelay |-> Absent, startingDelay |-> Absent]

\* What a capability holds in its closure.  A setting the adapter does not
\* have is "" or 0.
Settings(k, p, url, m, t, n, md, sd) ==
    [kind |-> k, provider |-> p, baseUrl |-> url, model |-> m, timeout |-> t,
     numOfAttempts |-> n, maxDelay |-> md, startingDelay |-> sd, error |-> ""]
NoBuilt == Settings("none", "", "", "", 0, 0, 0, 0)
BuildThrows(k, p, m) == [Settings(k, p, "", "", 0, 0, 0, 0) EXCEPT !.error = m]

DefaultOllamaBaseUrl == "http://localhost:11434"
DefaultOllamaModel == "llama3"
DefaultOllamaEmbeddingModel == "nomic-embed-text"
DefaultGeminiModel == "gemini-2.0-flash-thinking-exp-01-21"
DefaultGeminiEmbeddingModel == "embedding-001"

\* OllamaProvider.createChatLlm
OllamaChatSettings(cfg) ==
    Settings("chat", "ollama", TextOr(cfg.baseUrl, DefaultOllamaBaseUrl),
             TextOr(cfg.model, DefaultOllamaModel),
             NumberOr(cfg.timeout, DefaultTimeout), 0, 0, 0)

\* OllamaProvider.createEmbedder
OllamaEmbedderSettings(cfg) ==
    Settings("embed", "ollama", TextOr(cfg.baseUrl, DefaultOllamaBaseUrl),
             TextOr(cfg.embeddingModel, DefaultOllamaEmbeddingModel), 0,
             NumberOr(cfg.numOfAttempts, DefaultNumOfAttempts),
             NumberOr(cfg.maxDelay, DefaultMaxDelay),
             NumberOr(cfg.startingDelay, DefaultStartingDelay))

\* if (!config.apiKey) throw new Error("Gemini provider requires an API key");
GeminiKeyCheckDeferred(cfg) == FALSE
GeminiKeyMissing(cfg) == ~(cfg.apiKey.present /\ cfg.apiKey.value # "")

\* GeminiProvider.createChatLlm
GeminiChatSettings(cfg) ==
    IF GeminiKeyMissing(cfg) THEN BuildThrows("chat", "gemini", GeminiNeedsKey)
    ELSE Settings("chat", "gemini", "", TextOr(cfg.model, DefaultGeminiModel),
                  NumberOr(cfg.timeout, DefaultTimeout), 0, 0, 0)

\* GeminiProvider.createEmbedder
GeminiEmbedderSettingsBorrowed(cfg) ==
    IF GeminiKeyMissing(cfg) THEN BuildThrows("embed", "gemini", GeminiNeedsKey)
    ELSE Settings("embed", "gemini", "",
                  TextOr(cfg.embeddingModel, DefaultOllamaEmbeddingModel), 0, 0, 0, 0)
GeminiEmbedderSettings(cfg) ==
    IF GeminiKeyMissing(cfg) THEN BuildThrows("embed", "gemini", GeminiNeedsKey)
    ELSE Settings("embed", "gemini", "",
                  TextOr(cfg.embeddingModel, DefaultGeminiEmbeddingModel), 0, 0, 0, 0)

ConfigIdle == config = NoConfig /\ built = NoBuilt
InitConfigVars == built = NoBuilt /\ config \in Configs

ProviderCreateChatLlm(p) ==
    /\ built' = IF p = "ollama" THEN OllamaChatSettings(config)
                ELSE GeminiChatSettings(config)
    /\ UNCHANGED <<config, nonConfigVars>>

ProviderCreateEmbedder(p) ==
    /\ built' = IF p = "ollama" THEN OllamaEmbedderSettings(config)
                ELSE GeminiEmbedderSettings(config)
    /\ UNCHANGED <<config, nonConfigVars>>

ConfigNext ==
    \/ \E p \in ConfigProviders : ProviderCreateChatLlm(p)
    \/ \E p \in ConfigProviders : ProviderCreateEmbedder(p)

(***************************************************************************)
(* loadEnvVars and the embedder of the ingest configuration                *)
(***************************************************************************)
\* assert(value, message): undefined and "" fail it.
TruthyIfPresent(field) == field.present
Truthy(field) == field.present /\ field.value # ""

\* const { NAME = fallback } = process.env: only undefined takes the fallback.
WithDefault(field, fallback) == IF field.present THEN field ELSE Given(fallback)

Digits == "0123456789"
IsDigit(ch) == \E i \in 1..Len(Digits) : SubSeq(Digits, i, i) = ch
DigitValue(ch) == (CHOOSE i \in 1..Len(Digits) : SubSeq(Digits, i, i) = ch) - 1

NaN == [nan |-> TRUE, value |-> 0]
Number(n) == [nan |-> FALSE, value |-> n]

RECURSIVE ParseDigits(_, _)
ParseDigits(str, acc) ==
    IF Len(str) = 0 \/ ~IsDigit(SubSeq(str, 1, 1)) THEN acc
    ELSE ParseDigits(SubSeq(str, 2, Len(str)), acc * 10 + DigitValue(SubSeq(str, 1, 1)))

\* parseInt(str, 10): an optional sign, then the leading decimal digits; NaN
\* when there is none.  (dotenv has trimmed the value.)
ParseInt(str) ==
    LET signed == Len(str) > 0 /\ SubSeq(str, 1, 1) \in {"-", "+"}
        body == IF signed THEN SubSeq(str, 2, Len(str)) ELSE str
    IN  IF Len(body) = 0 \/ ~IsDigit(SubSeq(body, 1, 1)) THEN NaN
        ELSE IF signed /\ SubSeq(str, 1, 1) = "-" THEN Number(0 - ParseDigits(body, 0))
        ELSE Number(ParseDigits(body, 0))

\* The .env files explored: a variable is absent, empty (NAME=) or set.
EnvFiles ==
    [MONGODB_CONNECTION_URI : {AbsentText, Given(""), Given("mongodb://host")},
     MONGODB_DATABASE_NAME : {AbsentText, Given("cookbook")},
     VECTOR_SEARCH_INDEX_NAME : {AbsentText, Given("vector_index")},
     LLM_PROVIDER : {AbsentText, Given("Ollama"), Given("gemini"), Given("GEMINI"),
                     Given("mistral")},
     OLLAMA_BASE_URL : {AbsentText, Given(""), Given("http://ollama.internal:11434")},
     OLLAMA_EMBEDDING_MODEL : {AbsentText, Given(""), Given("custom-embed")},
     OLLAMA_CHAT_MODEL : {AbsentText},
     GEMINI_API_KEY : {AbsentText, Given(""), Given("key")},
     GEMINI_CHAT_MODEL : {AbsentText},
     GEMINI_EMBEDDING_MODEL : {AbsentText, Given("text-embedding-004")},
     LLM_TIMEOUT_MS : {AbsentText, Given("30000"), Given("abc")}]

NoEnv ==
    [MONGODB_CONNECTION_URI |-> AbsentText, MONGODB_DATABASE_NAME |-> AbsentText,
     VECTOR_SEARCH_INDEX_NAME |-> AbsentText, LLM_PROVIDER |-> AbsentText,
     OLLAMA_BASE_URL |-> AbsentText, OLLAMA_EMBEDDING_MODEL |-> AbsentText,
     OLLAMA_CHAT_MODEL |-> AbsentText, GEMINI_API_KEY |-> AbsentText,
     GEMINI_CHAT_MODEL |-> AbsentText, GEMINI_EMBEDDING_MODEL |-> AbsentText,
     LLM_TIMEOUT_MS |-> AbsentText]

\* The destructuring of process.env with its defaults.
Destructured(e) ==
    [e EXCEPT !.LLM_PROVIDER = WithDefault(@, "ollama"),
              !.OLLAMA_BASE_URL = WithDefault(@, DefaultOllamaBaseUrl),
              !.OLLAMA_EMBEDDING_MODEL = WithDefault(@, DefaultOllamaEmbeddingModel),
              !.OLLAMA_CHAT_MODEL = WithDefault(@, DefaultOllamaModel),
              !.GEMINI_CHAT_MODEL = WithDefault(@, "gemini-pro"),
              !.GEMINI_EMBEDDING_MODEL = WithDefault(@, DefaultGeminiEmbeddingModel),
              !.LLM_TIMEOUT_MS = WithDefault(@, "60000")]

\* The message of the first assertion that fails, "" when all pass.
FailedAssertion(d) ==
    IF ~Truthy(d.MONGODB_CONNECTION_URI) THEN "MONGODB_CONNECTION_URI is required"
    ELSE IF ~Truthy(d.MONGODB_DATABASE_NAME) THEN "MONGODB_DATABASE_NAME is required"
    ELSE IF ~Truthy(d.VECTOR_SEARCH_INDEX_NAME) THEN "VECTOR_SEARCH_INDEX_NAME is required"
    ELSE IF ToLowerCase(d.LLM_PROVIDER.value) = "ollama"
    THEN IF ~Truthy(d.OLLAMA_BASE_URL)
         THEN "OLLAMA_BASE_URL is required when using Ollama provider"
         ELSE IF ~Truthy(d.OLLAMA_EMBEDDING_MODEL)
         THEN "OLLAMA_EMBEDDING_MODEL is required when using Ollama provider"
         ELSE ""
    ELSE IF ToLowerCase(d.LLM_PROVIDER.value) = "gemini" /\ ~Truthy(d.GEMINI_API_KEY)
    THEN "GEMINI_API_KEY is required when using Gemini provider"
    ELSE ""

NoLoaded == [kind |-> "none", message |-> "", values |-> NoEnv, LLM_TIMEOUT_MS |-> NaN]

\* loadEnvVars(path)
LoadEnvVarsResult(e) ==
    LET d == Destructured(e)
    IN  IF FailedAssertion(d) # ""
        THEN [NoLoaded EXCEPT !.kind = "thrown", !.message = FailedAssertion(d)]
        ELSE [kind |-> "returned", message |-> "", values |-> d,
              LLM_TIMEOUT_MS |-> ParseInt(d.LLM_TIMEOUT_MS.value)]

\* An object literal: a later property of the same name replaces the value of
\* an earlier one.
RECURSIVE ObjectLiteral(_)
ObjectLiteral(entries) ==
    IF Len(entries) = 0 THEN <<>>
    ELSE LET last == entries[Len(entries)]
         IN  SetProperty(ObjectLiteral(SubSeq(entries, 1, Len(entries) - 1)),
                         last.key, last.value)

\* The configuration the ingest embedder passes to createEmbedder.
IngestEmbedderConfig(l) ==
    ObjectLiteral(<<Entry("timeout", l.LLM_TIMEOUT_MS),
                    Entry("baseUrl", l.values.OLLAMA_BASE_URL),
                    Entry("embeddingModel", l.values.OLLAMA_EMBEDDING_MODEL),
                    Entry("numOfAttempts", Number(25)),
                    Entry("startingDelay", Number(1000)),
                    Entry("apiKey", l.values.GEMINI_API_KEY),
                    Entry("embeddingModel", l.values.GEMINI_EMBEDDING_MODEL)>>)

NoIngest == [kind |-> "none", providerName |-> "", config |-> <<>>]

EnvIdle == env = NoEnv /\ loaded = NoLoaded /\ ingest = NoIngest
InitEnvVars == loaded = NoLoaded /\ ingest = NoIngest /\ env \in EnvFiles

\* The module is imported: loadEnvVars(dotenvPath) runs once.
LoadEnvVars ==
    /\ loaded.kind = "none"
    /\ loaded' = LoadEnvVarsResult(env)
    /\ UNCHANGED <<env, ingest, nonEnvVars>>

\* embedder: async () => createEmbedder(LLM_PROVIDER, { ... })
IngestEmbedder ==
    /\ loaded.kind = "returned"
    /\ ingest.kind = "none"
    /\ ingest' = [kind |-> "called",
                  providerName |-> loaded.values.LLM_PROVIDER.value,
                  config |-> IngestEmbedderConfig(loaded)]
    /\ UNCHANGED <<env, loaded, nonEnvVars>>

EnvNext ==
    \/ LoadEnvVars
    \/ IngestEmbedder

(***************************************************************************)
(* Embed calls and a chat call running side by side on one event loop      *)
(***************************************************************************)
ConcurrentChat == "c1"

ConcurrentNext ==
    \/ EmbedNext
    \/ \E latency \in Latencies : ChatStart(ConcurrentChat, latency)
    \/ BackendSettle(ConcurrentChat)
    \/ TimerFire(ConcurrentChat)
    \/ AdvanceTime

InitEmbed ==
    /\ InitEmbedVars /\ InitChatVars
    /\ chatCfg = [provider |-> "ollama", timeout |-> 0]
    /\ original = <<>> /\ NormIdle /\ RegistryIdle /\ StreamIdle /\ ConfigIdle /\ EnvIdle
InitChat ==
    /\ InitChatVars /\ InitEmbedVars
    /\ embedCfg = [provider |-> "ollama", numOfAttempts |-> 0,
                   startingDelay |-> 0, maxDelay |-> 0]
    /\ original = <<>> /\ NormIdle /\ RegistryIdle /\ StreamIdle /\ ConfigIdle /\ EnvIdle
InitOthersIdle ==
    /\ InitChat /\ chatCfg = [provider |-> "ollama", timeout |-> 0]
InitNormalize ==
    /\ InitNormVars /\ RegistryIdle /\ StreamIdle /\ ConfigIdle /\ EnvIdle
    /\ InitEmbedVars /\ InitChatVars
    /\ chatCfg = [provider |-> "gemini", timeout |-> 0]
    /\ embedCfg = [provider |-> "ollama", numOfAttempts |-> 0,
                   startingDelay |-> 0, maxDelay |-> 0]
InitRegistry == InitRegistryVars /\ InitOthersIdle
InitStream == InitStreamVars /\ InitOthersIdle
InitConfig ==
    /\ InitEmbedVars /\ InitChatVars
    /\ chatCfg = [provider |-> "ollama", timeout |-> 0]
    /\ embedCfg = [provider |-> "ollama", numOfAttempts |-> 0,
                   startingDelay |-> 0, maxDelay |-> 0]
    /\ original = <<>> /\ NormIdle /\ RegistryIdle /\ StreamIdle /\ EnvIdle
    /\ InitConfigVars
InitEnv ==
    /\ InitEmbedVars /\ InitChatVars
    /\ chatCfg = [provider |-> "ollama", timeout |-> 0]
    /\ embedCfg = [provider |-> "ollama", numOfAttempts |-> 0,
                   startingDelay |-> 0, maxDelay |-> 0]
    /\ original = <<>> /\ NormIdle /\ RegistryIdle /\ StreamIdle /\ ConfigIdle
    /\ InitEnvVars
InitConcurrent ==
    /\ InitEmbedVars /\ InitChatVars
    /\ embedCfg = [provider |-> "ollama", numOfAttempts |-> 2,
                   startingDelay |-> 1000, maxDelay |-> 1500]
    /\ chatCfg \in [provider : {"ollama", "gemini"}, timeout : {2}]
    /\ original = <<>> /\ NormIdle /\ RegistryIdle /\ StreamIdle /\ ConfigIdle /\ EnvIdle

SpecEmbed == InitEmbed /\ [][EmbedNext]_vars
SpecChat == InitChat /\ [][ChatNext]_vars
\* The event loop runs what is due: a settlement that has arrived, a timer
\* that has expired, and the passage of time to the next of them.
SpecChatFair ==
    /\ SpecChat
    /\ \A c \in Calls : WF_vars(BackendSettle(c)) /\ WF_vars(TimerFire(c))
    /\ WF_vars(AdvanceTime)
SpecNormalize == InitNormalize /\ [][NormNext]_vars
SpecRegistry == InitRegistry /\ [][RegistryNext]_vars
SpecStream == InitStream /\ [][StreamNext]_vars
SpecConfig == InitConfig /\ [][ConfigNext]_vars
SpecEnv == InitEnv /\ [][EnvNext]_vars
SpecConcurrent == InitConcurrent /\ [][ConcurrentNext]_vars

(***************************************************************************)
(* Claims about the embedders (checked under SpecEmbed)                    *)
(***************************************************************************)
IsOllamaEmbedder == embedCfg.provider = "ollama"
IsGeminiEmbedder == embedCfg.provider = "gemini"
EmbedFailed(t) == embedPc[t] = "done" /\ embedResult[t].kind = "error"
EmbedReturned(t) == embedPc[t] = "done" /\ embedResult[t].kind = "ok"

\* C1: with a configured attempt count n >= 1, withBackoff never invokes the
\* operation more than n times, and when it fails (every invocation having
\* failed) the operation has been invoked exactly n times: it neither gives
\* up earlier nor tries once more.
C1_ExactlyNInvocations ==
    \A t \in Tasks :
        (IsOllamaEmbedder /\ embedCfg.numOfAttempts >= 1) =>
            /\ fnCalls[t] <= embedCfg.numOfAttempts
            /\ EmbedFailed(t) =>
                  /\ fnCalls[t] = embedCfg.numOfAttempts
                  /\ Len(caught[t]) = embedCfg.numOfAttempts
            /\ (embedPc[t] = "waiting") => fnCalls[t] < embedCfg.numOfAttempts

C1_Witness ==
    \E t \in Tasks :
        /\ IsOllamaEmbedder /\ embedCfg.numOfAttempts = MaxAttempts
        /\ EmbedFailed(t) /\ fnCalls[t] = MaxAttempts

\* C2 (as claimed): while withBackoff waits before attempt k (k >= 2), its
\* base delay is min(startingDelay * 2^(k-2), maxDelay); before the second
\* attempt it is min(startingDelay, maxDelay).
C2_BaseDelayAsClaimed ==
    \A t \in Tasks :
        (IsOllamaEmbedder /\ embedPc[t] = "waiting") =>
            delay[t] = Min(startingDelay * Pow2((attempt[t] + 1) - 2), maxDelay)

\* C3: whenever withBackoff waits, the delay it waits is its base delay plus a
\* jitter between 0 and a tenth of the base delay: never less than the base
\* delay, never more than 1.1 times the base delay.
C3_JitterOnlyAdds ==
    \A t \in Tasks :
        (IsOllamaEmbedder /\ embedPc[t] = "waiting") =>
            /\ actualDelay[t] >= delay[t] * JitterUnit
            /\ 10 * actualDelay[t] <= 11 * delay[t] * JitterUnit

C3_Witness ==
    \E t \in Tasks :
        /\ IsOllamaEmbedder /\ embedPc[t] = "waiting"
        /\ actualDelay[t] > delay[t] * JitterUnit

\* C4: when withBackoff gives up after invoking the operation, the failure it
\* throws is the failure of the last invocation: the last error it caught,
\* which is what the most recent backend call produced.
C4_LastFailurePropagates ==
    \A t \in Tasks :
        (IsOllamaEmbedder /\ EmbedFailed(t) /\ fnCalls[t] >= 1) =>
            /\ embedResult[t].error = caught[t][Len(caught[t])]
            /\ embedResult[t] = OllamaFn(lastOutcome[t])

C4_Witness ==
    \E t \in Tasks :
        /\ IsOllamaEmbedder /\ EmbedFailed(t) /\ Len(caught[t]) >= 2
        /\ caught[t][1] # caught[t][Len(caught[t])]
        /\ embedResult[t].error = caught[t][Len(caught[t])]

\* C5: for both adapters, an embed call whose transport failed on every
\* invocation ends with a thrown failure and not with an EmbedResult; while
\* its invocations keep failing nothing is returned.
C5_AlwaysFailingEmbedThrows ==
    \A t \in Tasks :
        /\ (embedPc[t] = "done" /\ lastOutcome[t].kind = "reject") =>
              /\ embedResult[t].kind = "error"
              /\ embedResult[t].error # ""
        /\ (embedPc[t] = "waiting") => embedResult[t].kind = "none"

C5_Witness ==
    \E t \in Tasks :
        /\ IsGeminiEmbedder /\ embedPc[t] = "done"
        /\ lastOutcome[t].kind = "reject" /\ embedResult[t].kind = "error"

\* C6 (as claimed): for every adapter, a failing backend call is invoked
\* again up to the configured number of attempts before embed fails.
C6_EveryAdapterRetries ==
    \A t \in Tasks :
        (EmbedFailed(t) /\ embedCfg.numOfAttempts >= 1) =>
            fnCalls[t] = embedCfg.numOfAttempts

\* C6 (amended): the Ollama embedder retries a failing backend call up to the
\* configured number of attempts, and a success after transient failures is
\* returned as the EmbedResult; the Gemini embedder invokes its backend once
\* and throws the wrapped failure without retrying.
C6_OllamaRetriesGeminiOnce ==
    \A t \in Tasks :
        /\ (IsOllamaEmbedder /\ embedCfg.numOfAttempts >= 1) =>
              /\ EmbedFailed(t) => fnCalls[t] = embedCfg.numOfAttempts
              /\ (embedPc[t] = "done" /\ lastOutcome[t].kind = "data") =>
                    /\ embedResult[t] = EmbedOk(lastOutcome[t].embedding)
                    /\ fnCalls[t] = Len(caught[t]) + 1
        /\ IsGeminiEmbedder =>
              /\ fnCalls[t] <= 1
              /\ caught[t] = <<>>
              /\ (embedPc[t] = "done" /\ lastOutcome[t].kind = "reject") =>
                    embedResult[t] =
                        EmbedThrow("Failed to generate embeddings: " \o lastOutcome[t].error)

C6_Witness ==
    \E t \in Tasks :
        /\ IsOllamaEmbedder /\ EmbedReturned(t)
        /\ Len(caught[t]) >= 1 /\ fnCalls[t] = Len(caught[t]) + 1

(***************************************************************************)
(* Claims about the chat LLMs (checked under SpecChat)                     *)
(***************************************************************************)
IsGeminiChat == chatCfg.provider = "gemini"
ChatDone(c) == chatPc[c] = "done"

\* The promise the call awaited: Promise.race's for Gemini, axios.post's otherwise.
Awaited(c) == IF IsGeminiChat THEN raceOutcome[c] ELSE resultPromise[c]

\* The call's await ended in a failure (a transport error or a timeout).
TransportFailed(c) == ChatDone(c) /\ Awaited(c).state = "rejected"

\* The call ran its catch block (a rejection, or text() throwing).
Caught(c) == ChatDone(c) /\ chatLog[c] # <<>>

TimedOutLogged(c) ==
    \E i \in 1..Len(chatLog[c]) :
        chatLog[c][i] \in {"Gemini API call timed out", "Ollama API call timed out"}

\* C7: for every adapter, no chat call ever raises, and a chat call whose
\* transport failed returns a ChatResult with role assistant and a non-empty
\* apology as content.
C7_FailedChatApologises ==
    \A c \in Calls :
        /\ chatResult[c].kind # "thrown"
        /\ TransportFailed(c) =>
              /\ chatResult[c].kind = "returned"
              /\ chatResult[c].role = "assistant"
              /\ chatResult[c].hasContent
              /\ chatResult[c].content # ""
              /\ chatResult[c].content \in {TimeoutApology, TechnicalApology}

C7_Witness ==
    \E c \in Calls :
        /\ TransportFailed(c) /\ resultPromise[c].state = "rejected"
        /\ chatResult[c].kind = "returned"
        /\ chatResult[c].content = TechnicalApology

\* C8 (as claimed): the ChatResult of a failed chat call does not depend on
\* the kind of failure: any two failed calls return the same value.
C8_FailureKindNotObservable ==
    \A c1, c2 \in Calls :
        (Caught(c1) /\ Caught(c2)) => chatResult[c1] = chatResult[c2]

\* C8 (amended): a failed chat call returns one of two fixed apologies, the
\* timeout apology exactly when the failure was classified (and logged) as a
\* timeout; the returned value tells the two classes apart and nothing else:
\* two failed calls return the same value iff both or neither were logged as
\* timeouts, whatever the errors were.
C8_OnlyTimeoutClassObservable ==
    \A c1, c2 \in Calls :
        (Caught(c1) /\ Caught(c2)) =>
            /\ chatResult[c1].role = "assistant" /\ chatResult[c2].role = "assistant"
            /\ (chatResult[c1] = chatResult[c2]) <=> (TimedOutLogged(c1) <=> TimedOutLogged(c2))
            /\ TimedOutLogged(c1) <=> (chatResult[c1].content = TimeoutApology)

C8_Witness ==
    \E c1, c2 \in Calls :
        /\ Caught(c1) /\ Caught(c2)
        /\ TimedOutLogged(c1) /\ ~TimedOutLogged(c2)
        /\ chatResult[c1].content = TimeoutApology
        /\ chatResult[c2].content = TechnicalApology

\* C9: in the Gemini race, a backend call that completes after the deadline
\* (start + timeout) leaves the race rejected with the timeout error and the
\* call answers with the timeout apology; one that completes before the
\* deadline leaves the race settled with the backend's own settlement, which
\* is never the timeout error.
C9_RaceDecidedByDeadline ==
    \A c \in Calls :
        (IsGeminiChat /\ ChatDone(c)) =>
            /\ (opDue[c] > startedAt[c] + timeout) =>
                  /\ raceOutcome[c] = Rejected(GeminiTimeoutError)
                  /\ chatResult[c] = ChatReturn(TimeoutApology)
            /\ (opDue[c] < startedAt[c] + timeout) =>
                  /\ resultPromise[c].state \in {"fulfilled", "rejected"}
                  /\ raceOutcome[c] = resultPromise[c]
                  /\ raceOutcome[c].value # GeminiTimeoutError
                  /\ (raceOutcome[c].value.kind = "text") =>
                        chatResult[c] = ChatReturn(raceOutcome[c].value.text)

C9_Witness ==
    \E c1, c2 \in Calls :
        /\ IsGeminiChat /\ ChatDone(c1) /\ ChatDone(c2)
        /\ opDue[c1] > startedAt[c1] + timeout
        /\ raceOutcome[c1] = Rejected(GeminiTimeoutError)
        /\ opDue[c2] < startedAt[c2] + timeout
        /\ raceOutcome[c2] = Fulfilled(ChatOutcome("text", "Hello", "", ""))

\* C10: once a chat call has returned, no later step changes its result or
\* the settled race: the loser of the race is left running (the timer stays
\* armed until it fires, the backend call stays pending until it settles) and
\* its late completion changes no call's result.
C10_LateLoserChangesNothing ==
    [][\A c \in Calls :
          (chatResult[c].kind # "none") =>
              /\ chatResult'[c] = chatResult[c]
              /\ raceOutcome'[c] = raceOutcome[c]
              /\ chatLog'[c] = chatLog[c]
              /\ (IsGeminiChat /\ timer[c] = "armed") => timer'[c] \in {"armed", "fired"}
              /\ (IsGeminiChat /\ resultPromise[c].state = "pending") =>
                    resultPromise'[c].state \in {"pending", "fulfilled", "rejected"}]_vars

C10_Witness ==
    \E c1, c2 \in Calls :
        /\ IsGeminiChat /\ ChatDone(c1) /\ ChatDone(c2)
        /\ raceOutcome[c1] = Rejected(GeminiTimeoutError)
        /\ resultPromise[c1].state = "fulfilled"
        /\ chatResult[c1] = ChatReturn(TimeoutApology)
        /\ raceOutcome[c2].state = "fulfilled"
        /\ timer[c2] = "fired"
        /\ chatResult[c2] = ChatReturn("Hello")

(***************************************************************************)
(* Message normalisation (SpecNormalize)                                   *)
(***************************************************************************)
HasRole(msgs, r) == \E i \in 1..Len(msgs) : msgs[i].role = r
Kept(msgs) == SelectSeq(msgs, LAMBDA m : m.role # "system")
Normalized == normPc # "input"
TextOf(i) == chatMessages[i].parts[1].text
EndsWith(s, suffix) ==
    /\ Len(s) >= Len(suffix)
    /\ SubSeq(s, Len(s) - Len(suffix) + 1, Len(s)) = suffix

\* The contents of the system messages of msgs, in order, a blank line
\* between two of them (message contents are never empty here).
RECURSIVE SystemText(_)
SystemText(msgs) ==
    IF msgs = <<>> THEN ""
    ELSE LET rest == SystemText(Tail(msgs))
         IN  IF Head(msgs).role # "system" THEN rest
             ELSE IF rest = "" THEN Head(msgs).content
             ELSE Head(msgs).content \o "\n\n" \o rest

FirstUser(kept) ==
    CHOOSE i \in 1..Len(kept) :
        kept[i].role = "user" /\ \A j \in 1..(i - 1) : kept[j].role # "user"

\* C11: when the input has a system message and a user message, the text of
\* the first user message becomes "[System Instructions: <the system contents
\* in order, joined by a blank line>]\n\n<its own content>", every other
\* non-system message keeps its content, and [{system,"A"},{user,"B"}] yields
\* the single user message "[System Instructions: A]\n\nB".
C11_SystemTextMergedIntoFirstUser ==
    /\ (Normalized /\ HasRole(original, "system") /\ HasRole(original, "user")) =>
          LET kept == Kept(original)
          IN  /\ Len(chatMessages) = Len(kept)
              /\ \A i \in 1..Len(kept) :
                    chatMessages[i].parts =
                        <<[text |-> IF i = FirstUser(kept)
                                    THEN "[System Instructions: " \o SystemText(original)
                                             \o "]\n\n" \o kept[i].content
                                    ELSE kept[i].content]>>
    /\ (Normalized /\ original = <<[role |-> "system", content |-> "A"],
                                  [role |-> "user", content |-> "B"]>>) =>
          chatMessages = <<[role |-> "user",
                            parts |-> <<[text |-> "[System Instructions: A]\n\nB"]>>]>>

C11_Witness ==
    /\ normPc = "called"
    /\ original = <<[role |-> "system", content |-> "A"],
                    [role |-> "user", content |-> "A"],
                    [role |-> "system", content |-> "B"]>>
    /\ chatMessages = <<[role |-> "user",
                         parts |-> <<[text |-> "[System Instructions: A\n\nB]\n\nA"]>>]>>

\* C12: when the input has system messages and no user message, the messages
\* sent are exactly the non-system messages with their contents unchanged:
\* the system text appears nowhere.
C12_SystemDroppedWithoutUser ==
    (Normalized /\ HasRole(original, "system") /\ ~HasRole(original, "user")) =>
        LET kept == Kept(original)
        IN  /\ Len(chatMessages) = Len(kept)
            /\ \A i \in 1..Len(kept) :
                  chatMessages[i] = [role |-> "model",
                                     parts |-> <<[text |-> kept[i].content]>>]

C12_Witness ==
    /\ normPc = "called"
    /\ original = <<[role |-> "system", content |-> "A"],
                    [role |-> "assistant", content |-> "B"]>>
    /\ chatMessages = <<[role |-> "model", parts |-> <<[text |-> "B"]>>]>>

\* C13: the output has no system-role message; its messages are the
\* non-system messages of the input in their order (each output text ends
\* with the content of the input message at the same rank), with role
\* assistant renamed to model and role user left as it is.
C13_NoSystemOrderKeptRolesRenamed ==
    Normalized =>
        LET kept == Kept(original)
        IN  /\ \A i \in 1..Len(chatMessages) : chatMessages[i].role # "system"
            /\ Len(chatMessages) = Len(kept)
            /\ \A i \in 1..Len(kept) :
                  /\ kept[i].role = "assistant" => chatMessages[i].role = "model"
                  /\ kept[i].role = "user" => chatMessages[i].role = "user"
                  /\ Len(chatMessages[i].parts) = 1
                  /\ EndsWith(TextOf(i), kept[i].content)

C13_Witness ==
    /\ normPc = "called"
    /\ original = <<[role |-> "assistant", content |-> "A"],
                    [role |-> "system", content |-> "B"],
                    [role |-> "user", content |-> "B"]>>
    /\ Len(chatMessages) = 2
    /\ chatMessages[1] = [role |-> "model", parts |-> <<[text |-> "A"]>>]
    /\ chatMessages[2].role = "user"

\* C14: normalising the output of a normalisation (read back as a message
\* list: role and text of each message) returns that output unchanged.
C14_NormalizeIdempotent ==
    normPc = "renormalized" => renormalized = chatMessages

C14_Witness ==
    /\ normPc = "renormalized"
    /\ HasRole(original, "system")
    /\ Len(chatMessages) = 2
    /\ chatMessages[1].role = "model"
    /\ chatMessages[2].role = "user"
    /\ renormalized = chatMessages

RegisteredKeys == {"ollama", "gemini"}
CaseVariants == [ollama |-> {"ollama", "OLLAMA"}, gemini |-> {"Gemini"}]
StartupHandle == [ollama |-> "OllamaProvider", gemini |-> "GeminiProvider"]
UnregisteredNames == {"unknown-provider", "mistral"}

\* C16: a registered name resolves to the handle registered under its
\* lower-case key whatever the letter case of the request: "OLLAMA" and
\* "ollama" both give the Ollama handle, "Gemini" the Gemini handle, and
\* a capability requested as "GEMINI" is built by the Gemini handle.
C16_LookupIgnoresCase ==
    /\ \A k \in RegisteredKeys :
          resolved.name \in CaseVariants[k] =>
              resolved = ResolvedHandle(resolved.name, StartupHandle[k])
    /\ created.name = "GEMINI" => created.detail \in {"gemini", GeminiNeedsKey}

C16_Witness ==
    /\ resolved = ResolvedHandle("OLLAMA", "OllamaProvider")
    /\ created.name = "GEMINI" /\ created.kind = "capability"

\* C17: resolving "unknown-provider" (or any other name that is no registered
\* key nor a built-in property name) fails, and the failure message contains
\* every registered provider name.
C17_UnknownNameListsProviders ==
    /\ resolved.name \in UnregisteredNames =>
          /\ resolved.kind = "error"
          /\ \A k \in RegisteredKeys : Includes(resolved.message, k)
    /\ created.name \in UnregisteredNames =>
          /\ created.kind = "error"
          /\ \A k \in RegisteredKeys : Includes(created.detail, k)

C17_Witness ==
    /\ resolved.name = "unknown-provider"
    /\ resolved.kind = "error"
    /\ Includes(resolved.message, "Available providers: ollama, gemini")

\* C18: whatever calls are made, and whatever a caller does to a record
\* getAllLlmProviders returned, the registry keeps the names and handles it
\* had at startup and every resolution answers from them.
C18_RegistryReadOnly ==
    /\ ObjectKeys(heap[1]) = <<"ollama", "gemini">>
    /\ \A k \in RegisteredKeys : OwnValue(heap[1], k) = StartupHandle[k]
    /\ \A k \in RegisteredKeys :
          resolved.name \in CaseVariants[k] => resolved.handle = StartupHandle[k]
    /\ resolved.name \in UnregisteredNames => resolved.kind = "error"
    /\ created.name = "ollama" => created = [op |-> created.op, name |-> "ollama",
                                             kind |-> "capability", detail |-> "ollama"]

C18_Witness ==
    \E i \in held :
        /\ GetProperty(heap[i], "ollama") = "FakeProvider"
        /\ HasKey(heap[i], "mistral")
        /\ resolved.name = "mistral" /\ resolved.kind = "error"
        /\ created.name = "ollama" /\ created.kind = "capability"

(***************************************************************************)
(* answerQuestionStream (SpecStream)                                       *)
(***************************************************************************)
\* C19: every iteration over the returned sequence yields one chunk, whose
\* delta content is the content of the result answerQuestionAwaited returned,
\* and every later next() on that iteration reports completion.
C19_OneChunkThenDone ==
    \A i \in 1..Len(yielded) :
        \A k \in 1..Len(yielded[i]) :
            yielded[i][k] =
                IF k = 1
                THEN [done |-> FALSE, content |-> response.content,
                      hasContent |-> response.hasContent]
                ELSE [done |-> TRUE, content |-> "", hasContent |-> FALSE]

C19_Witness ==
    /\ response = ChatReturn("Hello")
    /\ \E i \in 1..Len(yielded) :
          /\ Len(yielded[i]) >= 3
          /\ yielded[i][1].content = "Hello"
          /\ yielded[i][3].done

\* C20: the chunk of one answerQuestionStream call is delivered at most once:
\* no two iterations over the returned sequence both deliver it.
C20_ChunkDeliveredAtMostOnce ==
    \A i, j \in 1..Len(yielded) :
        (i # j) =>
            ~(/\ \E k \in 1..Len(yielded[i]) : ~yielded[i][k].done
              /\ \E k \in 1..Len(yielded[j]) : ~yielded[j][k].done)

(***************************************************************************)
(* Construction and configuration (SpecConfig)                             *)
(***************************************************************************)
Built == built.kind # "none"
BuiltOk == Built /\ built.error = ""
BuiltBy(p, k) == built.provider = p /\ built.kind = k

\* C21: when the configuration carries no credential, GeminiProvider's
\* createChatLlm and createEmbedder throw "Gemini provider requires an API
\* key" at once and hand out no capability.
C21_GeminiFailsAtConstruction ==
    (Built /\ built.provider = "gemini" /\ ~config.apiKey.present) =>
        /\ built.error = "Gemini provider requires an API key"
        /\ built.model = "" /\ built.timeout = 0

C21_Witness ==
    /\ BuiltBy("gemini", "embed")
    /\ ~config.apiKey.present
    /\ config.embeddingModel.present
    /\ built.error = "Gemini provider requires an API key"

\* C22: a field the configuration does not carry takes the default of the
\* adapter being built: Ollama chat http://localhost:11434, llama3, 60000;
\* Ollama embedder http://localhost:11434, nomic-embed-text, 3 attempts,
\* max delay 5000, starting delay 1000; Gemini embedder embedding-001;
\* Gemini chat timeout 60000.
C22_AbsentFieldTakesOwnDefault ==
    BuiltOk =>
        /\ built.provider = "ollama" =>
              (~config.baseUrl.present => built.baseUrl = "http://localhost:11434")
        /\ BuiltBy("ollama", "chat") =>
              /\ ~config.model.present => built.model = "llama3"
              /\ ~config.timeout.present => built.timeout = 60000
        /\ BuiltBy("ollama", "embed") =>
              /\ ~config.embeddingModel.present => built.model = "nomic-embed-text"
              /\ ~config.numOfAttempts.present => built.numOfAttempts = 3
              /\ ~config.maxDelay.present => built.maxDelay = 5000
              /\ ~config.startingDelay.present => built.startingDelay = 1000
        /\ BuiltBy("gemini", "embed") =>
              (~config.embeddingModel.present => built.model = "embedding-001")
        /\ BuiltBy("gemini", "chat") =>
              (~config.timeout.present => built.timeout = 60000)

C22_Witness ==
    /\ BuiltOk /\ BuiltBy("gemini", "embed")
    /\ ~config.embeddingModel.present
    /\ config.model.present
    /\ built.model = "embedding-001"

\* C28: a value the caller supplies for numOfAttempts, maxDelay,
\* startingDelay or timeout is the value the adapter uses, 0 included.
C28_SuppliedValueUsed ==
    BuiltOk =>
        /\ BuiltBy("ollama", "embed") =>
              /\ config.numOfAttempts.present =>
                    built.numOfAttempts = config.numOfAttempts.value
              /\ config.maxDelay.present => built.maxDelay = config.maxDelay.value
              /\ config.startingDelay.present =>
                    built.startingDelay = config.startingDelay.value
        /\ built.kind = "chat" =>
              (config.timeout.present => built.timeout = config.timeout.value)

(***************************************************************************)
(* Concurrency of embed calls (SpecEmbed, SpecConcurrent)                  *)
(***************************************************************************)
\* The delay withBackoff holds after k failures that were followed by a wait.
RECURSIVE DelayAfter(_)
DelayAfter(k) ==
    IF k = 0 THEN startingDelay
    ELSE IF 2 * DelayAfter(k - 1) <= maxDelay THEN 2 * DelayAfter(k - 1) ELSE maxDelay

\* C23: with two embed calls running on one embedder, each call's attempt
\* counter is the number of that call's own failures, its delay is the one
\* that follows from its own retries, and a call that fails has had all its
\* configured attempts, whatever the other call did in between.
C23_RetryStateIsTaskLocal ==
    \A t \in Tasks :
        (IsOllamaEmbedder /\ embedPc[t] # "idle") =>
            /\ attempt[t] = Len(caught[t])
            /\ delay[t] = DelayAfter(warned[t])
            /\ (EmbedFailed(t) /\ embedCfg.numOfAttempts >= 1) =>
                  fnCalls[t] = embedCfg.numOfAttempts

C23_Witness ==
    /\ IsOllamaEmbedder
    /\ embedCfg.startingDelay = 1000 /\ embedCfg.maxDelay = 5000
    /\ embedPc["t1"] = "waiting" /\ attempt["t1"] = 2 /\ delay["t1"] = 4000
    /\ embedPc["t2"] = "waiting" /\ attempt["t2"] = 1 /\ delay["t2"] = 2000

C25_ChatResultFullyPopulated ==
    \A c \in Calls :
        chatResult[c].kind = "returned" =>
            /\ chatResult[c].role = "assistant"
            /\ chatResult[c].hasContent

\* C26: withBackoff has warned once for each retry and not otherwise: the
\* number of warnings is the number of invocations made after the first one
\* (plus one while the call waits for its next invocation), so a call that
\* failed on all of n attempts has warned n-1 times and a call whose first
\* invocation succeeded has not warned.  The Gemini embedder never warns.
C26_OneWarningPerRetry ==
    \A t \in Tasks :
        /\ IsGeminiEmbedder => warned[t] = 0
        /\ IsOllamaEmbedder =>
              /\ embedPc[t] = "idle" => warned[t] = 0
              /\ embedPc[t] = "waiting" => warned[t] = fnCalls[t]
              /\ (embedPc[t] \in {"calling", "done"} /\ fnCalls[t] >= 1) =>
                    warned[t] = fnCalls[t] - 1
              /\ (EmbedFailed(t) /\ embedCfg.numOfAttempts >= 1) =>
                    warned[t] = embedCfg.numOfAttempts - 1
              /\ (EmbedReturned(t) /\ caught[t] = <<>>) => warned[t] = 0

C26_Witness ==
    \E t \in Tasks :
        /\ IsOllamaEmbedder /\ embedCfg.numOfAttempts = 3
        /\ EmbedFailed(t) /\ Len(caught[t]) = 3
        /\ warned[t] = 2

\* C27: getLlmProvider returns a handle only for a name whose lower-case
\* form is a registered key, and then that key's handle; every other name,
\* "constructor" and "__proto__" included, fails.
C27_OnlyRegisteredNamesResolve ==
    resolved.kind = "handle" =>
        \E k \in RegisteredKeys :
            /\ resolved.name \in CaseVariants[k]
            /\ resolved.handle = StartupHandle[k]

\* C29: whatever numOfAttempts is configured, a finished Ollama embed call
\* has invoked the backend at least once and has not thrown "Should not
\* reach here".
C29_BackendInvokedNeverUnreachable ==
    \A t \in Tasks :
        (IsOllamaEmbedder /\ embedPc[t] = "done") =>
            /\ fnCalls[t] >= 1
            /\ embedResult[t] # EmbedThrow("Should not reach here")

\* C30: when withBackoff returns, the value is the result of the last
\* invocation, which is the first that succeeded: with k-1 failures caught
\* the operation has been invoked exactly k times, k within the configured
\* attempts; and after the return it is not invoked again and the result
\* stays.
C30_FirstSuccessReturnedOnce ==
    [][\A t \in Tasks :
          IsOllamaEmbedder =>
              /\ (embedPc'[t] = "done" /\ embedResult'[t].kind = "ok") =>
                    /\ fnCalls'[t] = Len(caught'[t]) + 1
                    /\ fnCalls'[t] <= numOfAttempts
                    /\ lastOutcome'[t].kind = "data"
                    /\ embedResult'[t].embedding = lastOutcome'[t].embedding
              /\ EmbedReturned(t) =>
                    /\ fnCalls'[t] = fnCalls[t]
                    /\ embedResult'[t] = embedResult[t]
                    /\ embedPc'[t] = "done"]_vars

C30_Witness ==
    /\ IsOllamaEmbedder
    /\ EmbedReturned("t1") /\ fnCalls["t1"] = 3 /\ Len(caught["t1"]) = 2
    /\ embedResult["t1"].embedding = <<1, 2>>
    /\ EmbedReturned("t2") /\ fnCalls["t2"] = 1

(***************************************************************************)
(* Further claims about withBackoff and the embedders (SpecEmbed)          *)
(***************************************************************************)
\* The maxDelay in force: the configured one, 5000 when none is configured.
MaxDelayInForce == IF embedCfg.maxDelay = 0 THEN 5000 ELSE embedCfg.maxDelay

\* C31: each time withBackoff goes to wait, the base delay it has computed
\* is at most maxDelay, and from the second wait on it is at least the base
\* delay of the wait before; also when startingDelay is above maxDelay.
C31_DelayMonotoneAndCapped ==
    [][\A t \in Tasks :
          (IsOllamaEmbedder /\ embedPc[t] = "calling" /\ embedPc'[t] = "waiting") =>
              /\ delay'[t] <= MaxDelayInForce
              /\ warned[t] >= 1 => delay'[t] >= delay[t]]_vars

C31_Witness ==
    \E t \in Tasks :
        /\ IsOllamaEmbedder
        /\ embedCfg.startingDelay = 4000 /\ embedCfg.maxDelay = 1500
        /\ embedPc[t] = "waiting" /\ warned[t] = 2
        /\ delay[t] = 1500

\* C35: an Ollama response without an embedding is a failed attempt like any
\* other: it is caught as the missing-embedding error, never returned, and
\* retried; when every attempt ends so, embed throws the missing-embedding
\* error after all the configured attempts.
C35_MissingEmbeddingIsAFailure ==
    \A t \in Tasks :
        (IsOllamaEmbedder /\ lastOutcome[t].kind = "nodata") =>
            /\ embedPc[t] \in {"waiting", "calling", "done"}   \* calling: the retry
            /\ caught[t] # <<>>
            /\ caught[t][Len(caught[t])] =
                  "Invalid response from Ollama API: missing embedding"
            /\ embedPc[t] = "waiting" => fnCalls[t] < numOfAttempts
            /\ embedPc[t] = "done" =>
                  /\ embedResult[t] =
                        EmbedThrow("Invalid response from Ollama API: missing embedding")
                  /\ fnCalls[t] = numOfAttempts

C35_Witness ==
    \E t \in Tasks :
        /\ IsOllamaEmbedder /\ EmbedFailed(t)
        /\ Len(caught[t]) = 3
        /\ \A i \in 1..3 :
              caught[t][i] = "Invalid response from Ollama API: missing embedding"
        /\ embedResult[t].error = "Invalid response from Ollama API: missing embedding"

\* C36: no embed call returns an embedding of length zero.
C36_NoEmptyEmbeddingReturned ==
    \A t \in Tasks :
        EmbedReturned(t) => Len(embedResult[t].embedding) > 0

(***************************************************************************)
(* Further claims about the chat LLMs (SpecChat, SpecChatFair)             *)
(***************************************************************************)
\* C32: a Gemini chat call that has been started completes; when its backend
\* call never settles, it completes with the timeout apology.
C32_GeminiChatCompletes ==
    \A c \in Calls :
        /\ (IsGeminiChat /\ chatPc[c] = "awaiting") ~> ChatDone(c)
        /\ (IsGeminiChat /\ chatPc[c] = "awaiting" /\ opDue[c] = Never)
              ~> (ChatDone(c) /\ chatResult[c] = ChatReturn(TimeoutApology))

C32_Witness ==
    \E c \in Calls :
        /\ IsGeminiChat /\ ChatDone(c)
        /\ opDue[c] = Never /\ resultPromise[c].state = "pending"
        /\ timer[c] = "fired"
        /\ chatResult[c] = ChatReturn(TimeoutApology)

\* C33: a Gemini chat call answers with the timeout apology, and logs the
\* timeout line, only when the race was lost to the deadline timer.
C33_TimeoutOnlyWhenDeadlinePassed ==
    \A c \in Calls :
        (IsGeminiChat /\ ChatDone(c)) =>
            /\ chatResult[c] = ChatReturn(TimeoutApology) =>
                  raceOutcome[c] = Rejected(GeminiTimeoutError)
            /\ (\E i \in 1..Len(chatLog[c]) : chatLog[c][i] = "Gemini API call timed out") =>
                  raceOutcome[c] = Rejected(GeminiTimeoutError)

(***************************************************************************)
(* Further claims about answerQuestionStream (SpecStream)                  *)
(***************************************************************************)
\* C34: answerQuestionStream calls answerQuestionAwaited exactly once, that
\* call has returned before the iterable is handed out, and opening and
\* advancing iterators makes no further call.
C34_OneCallBeforeReturn ==
    /\ answerCalls <= 1
    /\ streamPc # "idle" => answerCalls = 1
    /\ streamPc = "returned" => response # NoChatResult
    /\ iterators # <<>> => streamPc = "returned" /\ answerCalls = 1
    /\ \A i \in 1..Len(yielded) : yielded[i] # <<>> => answerCalls = 1

C34_Witness ==
    /\ Len(iterators) >= 2
    /\ \A i \in 1..2 : Len(yielded[i]) >= 2
    /\ answerCalls = 1

(***************************************************************************)
(* Further claims about the registry and the handles (SpecRegistry,        *)
(* SpecConfig)                                                             *)
(***************************************************************************)
\* C38: every key of the registry is lower case and resolves to a handle
\* whose getName() is that key, no two keys resolve to the same handle, and
\* a handle resolved under a registered key names itself by that key.
C38_RegisteredUnderOwnName ==
    /\ \A i \in 1..Len(heap[1]) :
          LET k == heap[1][i].key
          IN  /\ ToLowerCase(k) = k
              /\ GetLlmProvider(k).kind = "handle"
              /\ GetName(GetLlmProvider(k).handle) = k
    /\ \A i, j \in 1..Len(heap[1]) :
          i # j => /\ heap[1][i].key # heap[1][j].key
                   /\ GetLlmProvider(heap[1][i].key).handle
                         # GetLlmProvider(heap[1][j].key).handle
    /\ (resolved.kind = "handle" /\ HasKey(heap[1], resolved.name)) =>
          GetName(resolved.handle) = resolved.name

C38_Witness ==
    /\ resolved.kind = "handle" /\ resolved.name = "ollama"
    /\ GetName(resolved.handle) = "ollama"
    /\ Len(heap) > 1 /\ \E i \in held : GetProperty(heap[i], "ollama") = "FakeProvider"

\* C39: a capability built from a configuration without apiKey fails if and
\* only if the handle's requiresApiKey() is true, for createChatLlm and for
\* createEmbedder alike.
C39_RequiresApiKeyAgrees ==
    (Built /\ ~config.apiKey.present) =>
        ((built.error # "") <=> RequiresApiKey(StartupHandle[built.provider]))

C39_Witness ==
    /\ ~config.apiKey.present
    /\ built.kind = "embed" /\ built.provider = "gemini"
    /\ built.error = GeminiNeedsKey

(***************************************************************************)
(* Claims about loadEnvVars and the ingest configuration (SpecEnv)         *)
(***************************************************************************)
Missing(field) == ~field.present \/ field.value = ""
SetEmpty(field) == field.present /\ field.value = ""
Selected == ToLowerCase(IF env.LLM_PROVIDER.present THEN env.LLM_PROVIDER.value ELSE "ollama")

\* C37: the configuration the ingest embedder passes to createEmbedder
\* carries the embedding model of the selected provider:
\* OLLAMA_EMBEDDING_MODEL for ollama, GEMINI_EMBEDDING_MODEL for gemini.
C37_IngestUsesSelectedEmbeddingModel ==
    ingest.kind = "called" =>
        /\ ToLowerCase(ingest.providerName) = "ollama" =>
              GetProperty(ingest.config, "embeddingModel")
                  = loaded.values.OLLAMA_EMBEDDING_MODEL
        /\ ToLowerCase(ingest.providerName) = "gemini" =>
              GetProperty(ingest.config, "embeddingModel")
                  = loaded.values.GEMINI_EMBEDDING_MODEL

RequiredMissing ==
    \/ Missing(env.MONGODB_CONNECTION_URI)
    \/ Missing(env.MONGODB_DATABASE_NAME)
    \/ Missing(env.VECTOR_SEARCH_INDEX_NAME)
    \/ Selected = "gemini" /\ Missing(env.GEMINI_API_KEY)

OllamaSettingEmpty ==
    Selected = "ollama"
        /\ (SetEmpty(env.OLLAMA_BASE_URL) \/ SetEmpty(env.OLLAMA_EMBEDDING_MODEL))

ReturnedDefaults ==
    loaded.kind = "returned" =>
        /\ ~env.LLM_PROVIDER.present => loaded.values.LLM_PROVIDER = Given("ollama")
        /\ env.LLM_PROVIDER.present => loaded.values.LLM_PROVIDER = env.LLM_PROVIDER
        /\ ~env.LLM_TIMEOUT_MS.present => loaded.LLM_TIMEOUT_MS = Number(60000)
        /\ env.LLM_TIMEOUT_MS = Given("30000") => loaded.LLM_TIMEOUT_MS = Number(30000)

\* C40 as stated: loadEnvVars fails exactly when a MongoDB variable or the
\* vector index name is missing, or gemini is selected (in any letter case)
\* without GEMINI_API_KEY; otherwise it returns, with LLM_PROVIDER "ollama"
\* and LLM_TIMEOUT_MS 60000 when they are not set.
C40_FailsOnlyOnListedVariables ==
    loaded.kind # "none" =>
        /\ loaded.kind = "thrown" <=> RequiredMissing
        /\ ReturnedDefaults

\* C40 amended: loadEnvVars also fails when ollama is selected and
\* OLLAMA_BASE_URL or OLLAMA_EMBEDDING_MODEL is set to an empty value; in
\* every other case it returns with the defaults above.
C40_FailsAlsoOnEmptyOllamaSetting ==
    loaded.kind # "none" =>
        /\ loaded.kind = "thrown" <=> (RequiredMissing \/ OllamaSettingEmpty)
        /\ ReturnedDefaults

C40_Witness ==
    /\ ~RequiredMissing
    /\ ~env.LLM_PROVIDER.present
    /\ SetEmpty(env.OLLAMA_BASE_URL)
    /\ loaded.kind = "thrown"
    /\ loaded.message = "OLLAMA_BASE_URL is required when using Ollama provider"

====
